---- MODULE Spec2Model ----
(***************************************************************************)
(* State-machine model of the market-data dashboard front end:             *)
(*   - SymbolChart (components/SymbolChart.jsx): the candle buffer of one  *)
(*     chart, its historical fetch effect and its candle_update effect;    *)
(*   - Backtester (pages/Backtester.jsx): calculateMetrics, the trade      *)
(*     matching pass and the statistics computed from the matched trades,  *)
(*     in binary floating point;                                           *)
(*   - SocketProvider (context/SocketContext.jsx) and AnalyticsLab         *)
(*     (pages/AnalyticsLab.jsx): the socket, the parse effect and the      *)
(*     live z-score buffers.                                               *)
(* Specifications:                                                         *)
(*   Spec         the SymbolChart of one symbol, driven by timeframe       *)
(*                switches, socket messages and fetch completions          *)
(*                (candles told apart by timestamp and delivery key);      *)
(*   SpecRekey    the same chart with the record of the series held when   *)
(*                a timeframe was left, over shorter responses;            *)
(*   SpecSeries   the same chart while the user stays on the default       *)
(*                timeframe, over updates that also differ in their close  *)
(*                price and one more timestamp;                            *)
(*   SpecFilter   the candle_update effect of a loaded chart on any        *)
(*                timeframe, fed messages for every timeframe;             *)
(*   SpecLive     the socket (open, close, reconnect) and the frames it    *)
(*                delivers to the AnalyticsLab page;                       *)
(*   SpecScores   one frame delivered to a score buffer of every length    *)
(*                up to MaxLivePoints;                                     *)
(*   SpecUpdater  the setCandles updater as a function of (prev, candle,   *)
(*                maxPoints), for every capacity 1..MaxCap, called once    *)
(*                and once more on its result;                             *)
(*   SpecBacktest calculateMetrics stepped signal by signal over every     *)
(*                signal list of up to MaxSignals signals;                 *)
(*   SpecStats    calculateMetrics over the lists of up to MaxTrades       *)
(*                round trips;                                             *)
(*   SpecSharpe   calculateMetrics over the lists that repeat one round    *)
(*                trip up to MaxRepeat times;                              *)
(*   SpecStale    the chart with timeframe switches and fetch completions  *)
(*                only;                                                    *)
(*   SpecRefresh  fetchAllData of AnalyticsLab: the initial call, the      *)
(*                timers' calls and their completions in any order;        *)
(*   SpecRun      runBacktest of Backtester: up to MaxRuns runs, each      *)
(*                succeeding or failing.                                   *)
(***************************************************************************)
EXTENDS Integers, Sequences, FiniteSets, TLC

VARIABLES
  activeTimeframe, \* SymbolChart useState("1m")
  candles,         \* SymbolChart useState([])
  loading,         \* SymbolChart useState(false)
  error,           \* SymbolChart useState(null)
  lastMessage,     \* SocketContext lastJsonMessage, as read through useSocket()
  fetches,         \* the fetchCandles calls in flight, each with its closure's ignore flag
  lastOp,          \* history: what the last step did to the chart
  leftTf, leftBuf, \* history (SpecRekey): the timeframe last left, and candles at that click
  lastSnap,        \* history (SpecSeries): the response of the load that was the last step
  uPrev, uCap, uCandle, uNext, uPc,   \* SpecUpdater: one call of the setCandles updater
  signalData, idx, trades, currentTrade, metrics, btPc, \* SpecBacktest: calculateMetrics
  readyState,      \* SocketProvider: readyState of useWebSocket
  reconnectCount,  \* useWebSocket: reconnect attempts made since the last open
  rawMessage,      \* SocketProvider: lastMessage of useWebSocket (the raw frame)
  liveZScores,     \* AnalyticsLab useState({})
  budget,          \* the frames the socket still delivers in this run
  liveOp,          \* history: what the last step of the socket did
  refreshSeq,      \* AnalyticsLab: the fetchAllData calls started so far
  inFlight,        \* AnalyticsLab: the fetchAllData calls awaiting their responses
  analyticsData, priceData, correlationMatrices, \* AnalyticsLab useState({})
  priceSeries, signals,  \* Backtester useState([])
  btLoading, btError,    \* Backtester loading (useState(false)) and error (useState(null))
  runLog           \* history: how the runs of runBacktest ended, oldest first

chartVars == <<activeTimeframe, candles, loading, error, lastMessage, fetches, lastOp>>
rekeyVars == <<leftTf, leftBuf, lastSnap>>
updVars == <<uPrev, uCap, uCandle, uNext, uPc>>
btVars == <<signalData, idx, trades, currentTrade, metrics, btPc>>
liveVars == <<readyState, reconnectCount, rawMessage, liveZScores, budget, liveOp>>
refreshVars == <<refreshSeq, inFlight, analyticsData, priceData, correlationMatrices>>
runVars == <<priceSeries, signals, btLoading, btError, runLog>>
pageVars == <<refreshVars, runVars>>
vars == <<chartVars, rekeyVars, updVars, btVars, liveVars, pageVars>>

----------------------------------------------------------------------------
(* Bounds of the model *)

\* candle timestamps are drawn from 1..MaxTs
MaxTs == 2
\* a historical response holds at most MaxSnap candles
MaxSnap == 3
\* ... and at most RekeySnap candles in SpecRekey
RekeySnap == 1
\* SpecUpdater: capacities 1..MaxCap, timestamps 1..UpdMaxTs
MaxCap == 3
UpdMaxTs == 4
\* SpecBacktest: up to MaxSignals signals, prices 1..MaxPrice
MaxSignals == 4
MaxPrice == 2
\* the significand of a number has Precision bits
Precision == 11
\* SpecStats: up to MaxTrades entry/exit pairs, prices 1..MaxPrice
MaxTrades == 3
\* SpecLive: the socket delivers up to MaxFrames frames
MaxFrames == 2
\* SpecSharpe: one entry/exit pair repeated up to MaxRepeat times, prices
\* 1..RepeatPrice
MaxRepeat == 6
RepeatPrice == 3
\* Capacities standing in for MAX_POINTS = {1s: 120, 1m: 60, 5m: 72}: the
\* same order (1m < 5m < 1s), small enough to fill and overflow a buffer.
Cap1m == 2
Cap5m == Cap1m + 1
Cap1s == Cap1m + 2
\* at most MaxStale superseded fetches are in flight at once
MaxStale == 1
\* calls of fetchAllData in one run of the AnalyticsLab page
MaxRefresh == 4
\* signals in a backtest-signals response of SpecRun, and runs per mount
RunLen == 2
MaxRuns == 2

----------------------------------------------------------------------------
(* Helpers for JavaScript arrays *)

Min(a, b) == IF a < b THEN a ELSE b
Max(a, b) == IF a > b THEN a ELSE b

SeqsUpTo(S, n) == UNION {[1..k -> S] : k \in 0..n}

Last(s) == s[Len(s)]

\* Array.prototype.slice(start) for any integer start: a negative start counts
\* from the end, and -0 is 0, so slice(-0) is the whole array.
slice(s, start) ==
  LET from == IF start < 0 THEN Max(Len(s) + start, 0) ELSE Min(start, Len(s))
  IN SubSeq(s, from + 1, Len(s))

\* Insert c into the sorted sequence s after every element whose timestamp is
\* not greater (Array.prototype.sort is stable).
RECURSIVE InsertByTimestamp(_, _)
InsertByTimestamp(s, c) ==
  IF s = <<>> THEN <<c>>
  ELSE IF Last(s).timestamp <= c.timestamp THEN Append(s, c)
  ELSE Append(InsertByTimestamp(SubSeq(s, 1, Len(s) - 1), c), Last(s))

\* [...xs].sort((a, b) => a.timestamp - b.timestamp)
RECURSIVE sortByTimestamp(_)
sortByTimestamp(s) ==
  IF s = <<>> THEN <<>>
  ELSE InsertByTimestamp(sortByTimestamp(SubSeq(s, 1, Len(s) - 1)), Last(s))

----------------------------------------------------------------------------
(* SymbolChart *)

TIMEFRAMES == {"1s", "1m", "5m"}

MAX_POINTS(tf) ==
  CASE tf = "1s" -> Cap1s
    [] tf = "1m" -> Cap1m
    [] tf = "5m" -> Cap5m

\* The symbol prop of the chart (LiveDashboard passes upper-case symbols).
symbol == "BTCUSDT"

toLowerCase(s) ==
  CASE s = "BTCUSDT" -> "btcusdt"
    [] s = "ETHUSDT" -> "ethusdt"
    [] OTHER -> s

\* A candle. key is history: the timeframe of the response or message that
\* delivered it (the payload itself carries timestamp and OHLCV only).
CandlesFor(tf, closes, n) == [timestamp : 1..n, close : closes, key : {tf}]

\* lastMessage.candle of a message without a candle field
NoCandle == [timestamp |-> 0, close |-> 0, key |-> "none"]

\* lastJsonMessage before the first message
NoMessage == [type |-> "none", symbol |-> "", timeframe |-> "none", candle |-> NoCandle]

\* candle_update messages for the chart's symbol, one per timeframe and candle
Updates(tfs, closes, n) ==
  UNION {[type : {"candle_update"}, symbol : {"btcusdt"}, timeframe : {tf},
          candle : CandlesFor(tf, closes, n)] : tf \in tfs}

\* Other parsed messages: the symbol in upper case, another symbol, no symbol,
\* no candle field, another type.
OtherMessages(tf) ==
  [type : {"candle_update"}, symbol : {"BTCUSDT", "ethusdt", ""}, timeframe : {tf},
   candle : {[timestamp |-> MaxTs, close |-> 1, key |-> tf]}] \cup
  [type : {"candle_update", "live_zscore"}, symbol : {"btcusdt"}, timeframe : {tf},
   candle : {NoCandle}]

\* response.data?.candles ?? [] of a historical response for timeframe tf
Snapshots(tf, closes, n, len) == SeqsUpTo(CandlesFor(tf, closes, n), len)

\* mutant: no branch for an equal timestamp
applyUpdate_appendOnEqual(prev, newCandle, maxPoints) ==
  IF Len(prev) = 0 THEN <<newCandle>>
  ELSE Append(slice(prev, -(maxPoints - 1)), newCandle)

\* The setCandles updater of the candle_update effect.
applyUpdate(prev, newCandle, maxPoints) ==
  IF Len(prev) = 0 THEN <<newCandle>>
  ELSE IF Last(prev).timestamp = newCandle.timestamp
       THEN [prev EXCEPT ![Len(prev)] = newCandle]
       ELSE Append(slice(prev, -(maxPoints - 1)), newCandle)

\* mutant: the timeframe of the message is not compared
Accepts_anyTimeframe(m, tf) ==
  /\ m # NoMessage
  /\ m.type = "candle_update"
  /\ toLowerCase(m.symbol) = toLowerCase(symbol)
  /\ m.candle # NoCandle

\* Whether the candle_update effect reaches setCandles for message m.
Accepts(m, tf) ==
  /\ m # NoMessage
  /\ m.type = "candle_update"
  /\ toLowerCase(m.symbol) = toLowerCase(symbol)
  /\ m.timeframe = tf
  /\ m.candle # NoCandle

\* The candle_update effect, run with lastMessage = m and activeTimeframe = tf.
candleUpdateEffect(m, tf, prev) ==
  IF Accepts(m, tf) THEN applyUpdate(prev, m.candle, MAX_POINTS(tf)) ELSE prev

\* mutant: the response is not sorted
loadCandles_unsorted(snapshot, maxPoints) == slice(snapshot, -maxPoints)

\* The candles fetchCandles hands to setCandles.
loadCandles(snapshot, maxPoints) == slice(sortByTimestamp(snapshot), -maxPoints)

\* history: which branch of the updater the effect took
EffectKind(none, m, tf, prev) ==
  IF ~Accepts(m, tf) THEN none
  ELSE IF Len(prev) = 0 THEN "first"
  ELSE IF Last(prev).timestamp = m.candle.timestamp THEN "replace"
  ELSE "append"

ChartInit ==
  /\ activeTimeframe = "1m"
  /\ candles = <<>>
  /\ loading = TRUE
  /\ error = "null"
  /\ lastMessage = NoMessage
  /\ fetches = {[tf |-> "1m", ignore |-> FALSE]}
  /\ lastOp = "mount"

\* onClick={() => setActiveTimeframe(tf)}: the cleanup of the fetch effect
\* sets ignore, then both effects run again for the new timeframe.
SwitchTimeframe(tf) ==
  /\ tf # activeTimeframe
  /\ Cardinality({f \in fetches : f.ignore}) < MaxStale
  /\ activeTimeframe' = tf
  /\ fetches' = {[f EXCEPT !.ignore = TRUE] : f \in fetches}
                  \cup {[tf |-> tf, ignore |-> FALSE]}
  /\ loading' = TRUE
  /\ error' = "null"
  /\ candles' = candleUpdateEffect(lastMessage, tf, candles)
  /\ lastOp' = EffectKind("switch", lastMessage, tf, candles)
  /\ UNCHANGED lastMessage

\* A message parsed by SocketProvider: lastJsonMessage changes and the
\* candle_update effect runs.
ReceiveMessage(m) ==
  /\ lastMessage' = m
  /\ candles' = candleUpdateEffect(m, activeTimeframe, candles)
  /\ lastOp' = EffectKind("ignored", m, activeTimeframe, candles)
  /\ UNCHANGED <<activeTimeframe, loading, error, fetches>>

\* (variant) a response that does not replace a buffer live updates filled
FetchSuccess_keepLive(f, snapshot) ==
  /\ f \in fetches
  /\ ~f.ignore
  /\ candles' = IF candles = <<>> THEN loadCandles(snapshot, MAX_POINTS(f.tf)) ELSE candles
  /\ loading' = FALSE
  /\ fetches' = fetches \ {f}
  /\ lastOp' = "load"
  /\ UNCHANGED <<activeTimeframe, error, lastMessage>>

\* The awaited axios.get of the current fetch resolves.
FetchSuccess(f, snapshot) ==
  /\ f \in fetches
  /\ ~f.ignore
  /\ candles' = loadCandles(snapshot, MAX_POINTS(f.tf))
  /\ loading' = FALSE
  /\ fetches' = fetches \ {f}
  /\ lastOp' = "load"
  /\ UNCHANGED <<activeTimeframe, error, lastMessage>>

\* The awaited axios.get of the current fetch rejects.
FetchFailure(f) ==
  /\ f \in fetches
  /\ ~f.ignore
  /\ error' = "Unable to load historical data"
  /\ loading' = FALSE
  /\ fetches' = fetches \ {f}
  /\ lastOp' = "loadFailed"
  /\ UNCHANGED <<activeTimeframe, candles, lastMessage>>

\* (variant) a finally block that clears loading whatever ignore says
FetchStale_clearsLoading(f) ==
  /\ f \in fetches
  /\ f.ignore
  /\ fetches' = fetches \ {f}
  /\ loading' = FALSE
  /\ lastOp' = "stale"
  /\ UNCHANGED <<activeTimeframe, candles, error, lastMessage>>

\* A fetch whose effect was cleaned up settles (either way): ignore is set.
FetchStale(f) ==
  /\ f \in fetches
  /\ f.ignore
  /\ fetches' = fetches \ {f}
  /\ lastOp' = "stale"
  /\ UNCHANGED <<activeTimeframe, candles, loading, error, lastMessage>>

\* history: the timeframe a click leaves and the candles held at the click
RecordLeft ==
  IF activeTimeframe' # activeTimeframe
  THEN leftTf' = activeTimeframe /\ leftBuf' = candles
  ELSE UNCHANGED <<leftTf, leftBuf>>

RekeyIdle == leftTf = "none" /\ leftBuf = <<>> /\ lastSnap = <<>>

----------------------------------------------------------------------------
(* The setCandles updater alone, for every capacity *)

Increasing(s) ==
  \A i \in 1..(Len(s) - 1) : s[i].timestamp < s[i + 1].timestamp

\* A buffer within capacity cap, strictly increasing in timestamp.
Buffers(cap) ==
  {b \in SeqsUpTo(CandlesFor("1m", {1}, UpdMaxTs), cap) : Increasing(b)}

InitUpdater ==
  /\ uCap \in 1..MaxCap
  /\ uPrev \in Buffers(uCap)
  /\ uCandle \in CandlesFor("1m", {1}, UpdMaxTs)
  /\ uNext = <<>>
  /\ uPc = "call"

\* setCandles((prev) => ...) with maxPoints = uCap
CallUpdater ==
  /\ uPc = "call"
  /\ uNext' = applyUpdate(uPrev, uCandle, uCap)
  /\ uPc' = "done"
  /\ UNCHANGED <<uPrev, uCap, uCandle>>

\* the same message applied once more: the updater runs on its own result
CallUpdaterAgain ==
  /\ uPc = "done"
  /\ uNext' = applyUpdate(uNext, uCandle, uCap)
  /\ uPc' = "twice"
  /\ UNCHANGED <<uPrev, uCap, uCandle>>

----------------------------------------------------------------------------
(* Numbers: binary floating point, round to nearest, ties to even *)

\* A finite number is [m, e] with value m * 2^e, where m = 0 (and e = 0) or
\* 2^(Precision-1) <= |m| < 2^Precision: every value has one representation.
\* Precision stands in for the 53 significand bits of a JavaScript number;
\* the exponent is unbounded (no value here overflows or underflows).
RECURSIVE Pow2(_)
Pow2(n) == IF n = 0 THEN 1 ELSE 2 * Pow2(n - 1)

Abs(n) == IF n < 0 THEN -n ELSE n

Sign(n) == IF n < 0 THEN -1 ELSE IF n > 0 THEN 1 ELSE 0

\* the number of binary digits of n > 0
RECURSIVE BitLen(_)
BitLen(n) == IF n = 0 THEN 0 ELSE 1 + BitLen(n \div 2)

Zero == [m |-> 0, e |-> 0]

\* -Infinity: below every finite number
NegInfinity == [m |-> 0, e |-> -1]

\* The number nearest to M * 2^e (M an integer), ties to the even significand.
fl(M, e) ==
  IF M = 0 THEN Zero
  ELSE LET a == Abs(M)
           L == BitLen(a)
       IN IF L <= Precision
          THEN [m |-> M * Pow2(Precision - L), e |-> e - (Precision - L)]
          ELSE LET s == L - Precision
                   q == a \div Pow2(s)
                   r == a % Pow2(s)
                   half == Pow2(s - 1)
                   q2 == IF r > half \/ (r = half /\ q % 2 = 1) THEN q + 1 ELSE q
               IN IF q2 = Pow2(Precision)
                  THEN [m |-> Sign(M) * Pow2(Precision - 1), e |-> e + s + 1]
                  ELSE [m |-> Sign(M) * q2, e |-> e + s]

\* the number of an integer literal
Num(n) == fl(n, 0)

\* a + b
flAdd(a, b) ==
  IF a = Zero THEN b
  ELSE IF b = Zero THEN a
  ELSE IF a.e - b.e >= Precision + 2 THEN a
  ELSE IF b.e - a.e >= Precision + 2 THEN b
  ELSE LET e == Min(a.e, b.e)
       IN fl(a.m * Pow2(a.e - e) + b.m * Pow2(b.e - e), e)

\* a - b
flSub(a, b) == flAdd(a, [b EXCEPT !.m = -b.m])

\* a * b
flMul(a, b) == fl(a.m * b.m, a.e + b.e)

\* a / b for b # 0: the quotient to Precision + 2 bits and a sticky bit
flDiv(a, b) ==
  IF a = Zero THEN Zero
  ELSE LET N == Abs(a.m) * Pow2(Precision + 2)
           q == N \div Abs(b.m)
           sticky == IF N % Abs(b.m) = 0 THEN 0 ELSE 1
       IN fl(Sign(a.m) * Sign(b.m) * (2 * q + sticky), a.e - b.e - Precision - 3)

\* the largest r in lo..hi with r * r <= x
RECURSIVE SqrtFloor(_, _, _)
SqrtFloor(x, lo, hi) ==
  IF lo = hi THEN lo
  ELSE LET mid == (lo + hi + 1) \div 2
       IN IF mid * mid <= x THEN SqrtFloor(x, mid, hi) ELSE SqrtFloor(x, lo, mid - 1)

\* Math.sqrt(a) for a >= 0
flSqrt(a) ==
  IF a = Zero THEN Zero
  ELSE LET k == IF (a.e - (Precision + 2)) % 2 = 0 THEN Precision + 2 ELSE Precision + 3
           X == a.m * Pow2(k)
           r == SqrtFloor(X, 0, Pow2(Precision + 2))
           sticky == IF r * r = X THEN 0 ELSE 1
       IN fl(2 * r + sticky, ((a.e - k) \div 2) - 1)

\* a > b
flGt(a, b) ==
  IF a = NegInfinity THEN FALSE
  ELSE IF b = NegInfinity THEN TRUE
  ELSE flSub(a, b).m > 0

----------------------------------------------------------------------------
(* Backtester: calculateMetrics *)

\* currentTrade.exit of an open trade (null)
NullSignal == [type |-> "null", timestamp |-> 0, price |-> 0]

\* currentTrade when no trade is open (null)
NullTrade == [entry |-> NullSignal, exit |-> NullSignal]

\* The record of lines 53-63: every statistic is the literal 0
ZeroMetrics ==
  [isNull |-> FALSE, totalTrades |-> 0, winningTrades |-> 0, losingTrades |-> 0,
   winRate |-> Zero, totalProfitLoss |-> Zero, avgProfit |-> Zero, avgLoss |-> Zero,
   maxDrawdown |-> Zero, sharpeRatio |-> Zero]

\* The return value null
NullMetrics == [ZeroMetrics EXCEPT !.isNull = TRUE]

\* The signal lists of the backtest-signals response: time-ordered, the
\* timestamp of a signal is its position.
SignalLists ==
  {[i \in DOMAIN f |-> [type |-> f[i].type, timestamp |-> i, price |-> f[i].price]] :
     f \in SeqsUpTo([type : {"entry", "exit"}, price : 1..MaxPrice], MaxSignals)}

\* Signal lists in which entries and exits alternate: n round trips.
PairedLists ==
  {[i \in DOMAIN f |-> [type |-> IF i % 2 = 1 THEN "entry" ELSE "exit",
                        timestamp |-> i, price |-> f[i]]] :
     f \in {g \in SeqsUpTo(1..MaxPrice, 2 * MaxTrades) : Len(g) % 2 = 0}}

\* Signal lists that repeat one round trip: n times entry at e, exit at x.
RepeatedLists ==
  {[i \in 1..(2 * n) |-> [type |-> IF i % 2 = 1 THEN "entry" ELSE "exit",
                          timestamp |-> i, price |-> IF i % 2 = 1 THEN ex[1] ELSE ex[2]]] :
     n \in 0..MaxRepeat, ex \in (1..RepeatPrice) \X (1..RepeatPrice)}

\* mutant: an exit pushes the trade and leaves it open
matchSignal_keepOpen(ts, cur, signal) ==
  IF signal.type = "entry" /\ cur = NullTrade
  THEN [trades |-> ts, currentTrade |-> [entry |-> signal, exit |-> NullSignal]]
  ELSE IF signal.type = "exit" /\ cur # NullTrade
  THEN [trades |-> Append(ts, [cur EXCEPT !.exit = signal]),
        currentTrade |-> [cur EXCEPT !.exit = signal]]
  ELSE [trades |-> ts, currentTrade |-> cur]

\* mutant: an entry replaces the trade that is open
matchSignal_reopen(ts, cur, signal) ==
  IF signal.type = "entry"
  THEN [trades |-> ts, currentTrade |-> [entry |-> signal, exit |-> NullSignal]]
  ELSE IF signal.type = "exit" /\ cur # NullTrade
  THEN [trades |-> Append(ts, [cur EXCEPT !.exit = signal]), currentTrade |-> NullTrade]
  ELSE [trades |-> ts, currentTrade |-> cur]

\* mutant: the trade is pushed when it is opened and closed in place
matchSignal_pushOnEntry(ts, cur, signal) ==
  IF signal.type = "entry" /\ cur = NullTrade
  THEN [trades |-> Append(ts, [entry |-> signal, exit |-> NullSignal]),
        currentTrade |-> [entry |-> signal, exit |-> NullSignal]]
  ELSE IF signal.type = "exit" /\ cur # NullTrade
  THEN [trades |-> [ts EXCEPT ![Len(ts)] = [cur EXCEPT !.exit = signal]],
        currentTrade |-> NullTrade]
  ELSE [trades |-> ts, currentTrade |-> cur]

\* The body of signalData.forEach: the trades and the open-trade slot after
\* signal.
matchSignal(ts, cur, signal) ==
  IF signal.type = "entry" /\ cur = NullTrade
  THEN [trades |-> ts, currentTrade |-> [entry |-> signal, exit |-> NullSignal]]
  ELSE IF signal.type = "exit" /\ cur # NullTrade
  THEN [trades |-> Append(ts, [cur EXCEPT !.exit = signal]), currentTrade |-> NullTrade]
  ELSE [trades |-> ts, currentTrade |-> cur]

\* The sign of ((exitPrice - entryPrice) / entryPrice) * 100 for entryPrice > 0
pnlSign(trade) ==
  IF trade.exit.price > trade.entry.price THEN 1
  ELSE IF trade.exit.price < trade.entry.price THEN -1 ELSE 0

\* trades.map: ((exitPrice - entryPrice) / entryPrice) * 100
tradePnL(ts) ==
  [i \in DOMAIN ts |->
     flMul(flDiv(flSub(Num(ts[i].exit.price), Num(ts[i].entry.price)),
                 Num(ts[i].entry.price)),
           Num(100))]

\* xs.reduce((sum, pnl) => sum + pnl, 0)
RECURSIVE reduceSum(_)
reduceSum(xs) ==
  IF Len(xs) = 0 THEN Zero
  ELSE flAdd(reduceSum(SubSeq(xs, 1, Len(xs) - 1)), xs[Len(xs)])

isPositive(pnl) == pnl.m > 0

isNegative(pnl) == pnl.m < 0

\* mutant: trades that break even are counted as wins
winners_nonNegative(pnl) == SelectSeq(pnl, LAMBDA x : ~isNegative(x))

\* tradePnL.filter((pnl) => pnl > 0)
winners(pnl) == SelectSeq(pnl, isPositive)

\* mutant: trades that break even are counted as losses
losers_nonPositive(pnl) == SelectSeq(pnl, LAMBDA x : ~isPositive(x))

\* tradePnL.filter((pnl) => pnl < 0)
losers(pnl) == SelectSeq(pnl, isNegative)

\* xs.length ? xs.reduce((sum, pnl) => sum + pnl, 0) / xs.length : 0
meanOrZero(xs) == IF Len(xs) > 0 THEN flDiv(reduceSum(xs), Num(Len(xs))) ELSE Zero

\* The forEach of lines 87-92 from its i-th call on: the drawdown loop's
\* maxDrawdown once every pnl is walked.
RECURSIVE drawdownFrom(_, _, _, _, _)
drawdownFrom(pnl, i, peak, maxDD, cumulative) ==
  IF i > Len(pnl) THEN maxDD
  ELSE LET c == flAdd(cumulative, pnl[i])
           pk == IF flGt(c, peak) THEN c ELSE peak
           drawdown == flSub(pk, c)
       IN drawdownFrom(pnl, i + 1, pk, IF flGt(drawdown, maxDD) THEN drawdown ELSE maxDD, c)

\* mutant: the last drawdown is reported instead of the largest
RECURSIVE lastDrawdownFrom(_, _, _, _, _)
lastDrawdownFrom(pnl, i, peak, maxDD, cumulative) ==
  IF i > Len(pnl) THEN maxDD
  ELSE LET c == flAdd(cumulative, pnl[i])
           pk == IF flGt(c, peak) THEN c ELSE peak
       IN lastDrawdownFrom(pnl, i + 1, pk, flSub(pk, c), c)

maxDrawdown_last(pnl) == lastDrawdownFrom(pnl, 1, NegInfinity, Zero, Zero)

\* (variant) the starting level 0 counts as the first peak
maxDrawdown_fromZero(pnl) == drawdownFrom(pnl, 1, Zero, Zero, Zero)

\* let peak = -Infinity; let maxDrawdown = 0; let cumulative = 0; forEach
maxDrawdown(pnl) == drawdownFrom(pnl, 1, NegInfinity, Zero, Zero)

\* totalProfitLoss / trades.length
avgReturn(pnl) == flDiv(reduceSum(pnl), Num(Len(pnl)))

\* tradePnL.reduce((sum, pnl) => sum + Math.pow(pnl - avgReturn, 2), 0) / trades.length
RECURSIVE squaresSum(_, _)
squaresSum(xs, avg) ==
  IF Len(xs) = 0 THEN Zero
  ELSE LET d == flSub(xs[Len(xs)], avg)
       IN flAdd(squaresSum(SubSeq(xs, 1, Len(xs) - 1), avg), flMul(d, d))

variance(pnl) == flDiv(squaresSum(pnl, avgReturn(pnl)), Num(Len(pnl)))

\* Math.sqrt(variance)
stdDev(pnl) == flSqrt(variance(pnl))

\* stdDev > 0 ? (avgReturn / stdDev) * Math.sqrt(252) : 0
sharpeRatio(pnl) ==
  IF flGt(stdDev(pnl), Zero)
  THEN flMul(flDiv(avgReturn(pnl), stdDev(pnl)), flSqrt(Num(252)))
  ELSE Zero

\* The record calculateMetrics returns for the matched trades ts.
tradeStats(ts) ==
  IF Len(ts) = 0
  THEN ZeroMetrics
  ELSE LET pnl == tradePnL(ts)
           winningTrades == winners(pnl)
           losingTrades == losers(pnl)
       IN [isNull |-> FALSE,
           totalTrades |-> Len(ts),
           winningTrades |-> Len(winningTrades),
           losingTrades |-> Len(losingTrades),
           winRate |-> IF Len(ts) > 0
                       THEN flMul(flDiv(Num(Len(winningTrades)), Num(Len(ts))), Num(100))
                       ELSE Zero,
           totalProfitLoss |-> reduceSum(pnl),
           avgProfit |-> meanOrZero(winningTrades),
           avgLoss |-> meanOrZero(losingTrades),
           maxDrawdown |-> maxDrawdown(pnl),
           sharpeRatio |-> sharpeRatio(pnl)]

\* calculateMetrics(candles, sigs) is entered with sigs among lists
InitBacktestOver(lists) ==
  /\ signalData \in lists
  /\ idx = 0
  /\ trades = <<>>
  /\ currentTrade = NullTrade
  /\ metrics = NullMetrics
  /\ btPc = "start"

InitBacktest == InitBacktestOver(SignalLists)

\* if (!signalData.length) return null;
ReturnNull ==
  /\ btPc = "start"
  /\ Len(signalData) = 0
  /\ metrics' = NullMetrics
  /\ btPc' = "done"
  /\ UNCHANGED <<signalData, idx, trades, currentTrade>>

\* const trades = []; let currentTrade = null;
BeginMatching ==
  /\ btPc = "start"
  /\ Len(signalData) > 0
  /\ btPc' = "matching"
  /\ UNCHANGED <<signalData, idx, trades, currentTrade, metrics>>

\* One call of the forEach callback.
MatchNext ==
  /\ btPc = "matching"
  /\ idx < Len(signalData)
  /\ LET r == matchSignal(trades, currentTrade, signalData[idx + 1])
     IN trades' = r.trades /\ currentTrade' = r.currentTrade
  /\ idx' = idx + 1
  /\ UNCHANGED <<signalData, metrics, btPc>>

\* The statistics over trades and the return.
ReturnStats ==
  /\ btPc = "matching"
  /\ idx = Len(signalData)
  /\ metrics' = tradeStats(trades)
  /\ btPc' = "done"
  /\ UNCHANGED <<signalData, idx, trades, currentTrade>>

----------------------------------------------------------------------------
(* SocketProvider and AnalyticsLab: the socket and the live z-score buffers *)

\* useWebSocket option reconnectAttempts
reconnectAttempts == 10

\* [...existing, newPoint].slice(-200)
MaxLivePoints == 200

\* a field the payload does not carry (undefined)
Undefined == -1

\* lastJsonMessage before the first frame (null)
NullJson ==
  [type |-> "none", symbol |-> "", timeframe |-> "none", candle |-> NoCandle,
   timestamp |-> Undefined, z_score |-> Undefined]

\* live_zscore payloads with a timestamp among tss: the symbol in upper or
\* lower case, with and without timestamp and z_score
LiveMessages(tss) ==
  [type : {"live_zscore"}, symbol : {"BTCUSDT", "ethusdt"}, timeframe : {"1m"},
   candle : {NoCandle}, timestamp : tss \cup {Undefined}, z_score : {Undefined, 2}]

\* payloads of another type: candle_update with and without candle, an
\* unknown type
OtherPayloads ==
  [type : {"candle_update"}, symbol : {"btcusdt"}, timeframe : {"1m"},
   candle : {NoCandle, [timestamp |-> 1, close |-> 1, key |-> "1m"]},
   timestamp : {Undefined}, z_score : {Undefined}] \cup
  {[NullJson EXCEPT !.type = "alert"]}

\* lastMessage of useWebSocket before the first frame (null)
NoFrame == [kind |-> "none", json |-> NullJson]

\* A frame: its data is the JSON text of a payload, or text that is not JSON.
Frames(tss) ==
  {[kind |-> "json", json |-> m] : m \in LiveMessages(tss) \cup OtherPayloads} \cup
  {[kind |-> "garbled", json |-> NullJson]}

\* JSON.parse(lastMessage.data) returns (TRUE) or throws (FALSE)
parses(frame) == frame.kind = "json"

\* Date.now(): later than every timestamp a payload carries
DateNow == MaxLivePoints + 2

\* { timestamp: new Date(lastMessage.timestamp || Date.now()),
\*   value: Number(lastMessage.z_score ?? 0) }
newPoint(m) ==
  [timestamp |-> IF m.timestamp = Undefined \/ m.timestamp = 0 THEN DateNow ELSE m.timestamp,
   value |-> IF m.z_score = Undefined THEN 0 ELSE m.z_score]

\* `${symbol}_${tf}` with symbol = (lastMessage.symbol || "").toLowerCase()
liveKey(m) == <<toLowerCase(m.symbol), m.timeframe>>

\* prev[key] || []
existingPoints(prev, key) == IF key \in DOMAIN prev THEN prev[key] ELSE <<>>

\* mutant: a point at the timestamp of the last one replaces it
appendPoint_replaceOnEqual(existing, point) ==
  IF Len(existing) > 0 /\ Last(existing).timestamp = point.timestamp
  THEN [existing EXCEPT ![Len(existing)] = point]
  ELSE slice(Append(existing, point), -MaxLivePoints)

\* [...existing, newPoint].slice(-200)
appendPoint(existing, point) == slice(Append(existing, point), -MaxLivePoints)

\* (variant) the new state holds the buffer of the message's key only
liveZScoreEffect_dropOthers(m, prev) ==
  IF m.type # "live_zscore" THEN prev
  ELSE [k \in {liveKey(m)} |-> appendPoint(existingPoints(prev, liveKey(m)), newPoint(m))]

\* The live_zscore effect of AnalyticsLab: liveZScores after message m.
liveZScoreEffect(m, prev) ==
  IF m.type # "live_zscore" THEN prev
  ELSE [k \in DOMAIN prev \cup {liveKey(m)} |->
          IF k = liveKey(m)
          THEN appendPoint(existingPoints(prev, liveKey(m)), newPoint(m))
          ELSE prev[k]]

\* SocketProvider mounts: the socket is connecting, nothing received; n
\* frames will be delivered.
LiveInit(n) ==
  /\ readyState = "CONNECTING"
  /\ reconnectCount = 0
  /\ rawMessage = NoFrame
  /\ liveZScores = <<>>
  /\ budget = n
  /\ liveOp = "mount"

\* onopen: the reconnect count starts over
SocketOpen ==
  /\ readyState = "CONNECTING"
  /\ readyState' = "OPEN"
  /\ reconnectCount' = 0
  /\ liveOp' = "open"
  /\ UNCHANGED <<rawMessage, liveZScores, budget>>

\* onclose / onerror (shouldReconnect: () => true, retryOnError: true): a
\* reconnect is scheduled while reconnectCount < reconnectAttempts
SocketClose ==
  /\ readyState \in {"CONNECTING", "OPEN"}
  /\ readyState' = "CLOSED"
  /\ liveOp' = IF reconnectCount < reconnectAttempts THEN "retryScheduled" ELSE "gaveUp"
  /\ UNCHANGED <<reconnectCount, rawMessage, liveZScores, budget>>

\* the reconnect timer fires after reconnectInterval
SocketReconnect ==
  /\ readyState = "CLOSED"
  /\ reconnectCount < reconnectAttempts
  /\ reconnectCount' = reconnectCount + 1
  /\ readyState' = "CONNECTING"
  /\ liveOp' = "reconnect"
  /\ UNCHANGED <<rawMessage, liveZScores, budget>>

\* A frame arrives: the parse effect of SocketProvider sets lastJsonMessage
\* or warns, and the live_zscore effect of AnalyticsLab runs on the change.
Deliver(frame) ==
  /\ readyState = "OPEN"
  /\ budget > 0
  /\ budget' = budget - 1
  /\ rawMessage' = frame
  /\ IF parses(frame)
     THEN /\ lastMessage' = frame.json
          /\ liveZScores' = liveZScoreEffect(frame.json, liveZScores)
          /\ liveOp' = IF frame.json.type = "live_zscore" THEN "appended" ELSE "ignored"
     ELSE /\ UNCHANGED <<lastMessage, liveZScores>>
          /\ liveOp' = "parseError"
  /\ UNCHANGED <<readyState, reconnectCount>>

\* The score buffer of one key after n points, whose timestamps are 1..n
ScoresAfter(n) ==
  [k \in {<<"btcusdt", "1m">>} |-> [i \in 1..n |-> [timestamp |-> i, value |-> 2]]]

----------------------------------------------------------------------------
(* AnalyticsLab: fetchAllData, called at the mount and by three timers *)

\* useState({}): nothing stored yet
NoResult == [refresh |-> 0, analytics |-> "none", prices |-> "none", correlations |-> "none"]

\* What the responses of one fetchAllData call amount to: the call they
\* answer, and per kind of request the data or the value its .catch gives.
RefreshResults(id) ==
  [refresh : {id}, analytics : {"data", "null"}, prices : {"candles", "empty"},
   correlations : {"data", "null"}]

\* The page mounts: the initial-load effect calls fetchAllData and the
\* timers are set.
RefreshInit ==
  /\ refreshSeq = 1
  /\ inFlight = {1}
  /\ analyticsData = NoResult
  /\ priceData = NoResult
  /\ correlationMatrices = NoResult

\* A timer (1 s, 60 s or 300 s) fires: fetchAllData() starts its requests.
TimerFires ==
  /\ refreshSeq < MaxRefresh
  /\ refreshSeq' = refreshSeq + 1
  /\ inFlight' = inFlight \cup {refreshSeq + 1}
  /\ UNCHANGED <<analyticsData, priceData, correlationMatrices>>

\* (variant) a call that finds a later call's result stored keeps it
RefreshCompletes_latestOnly(r) ==
  /\ r.refresh \in inFlight
  /\ inFlight' = inFlight \ {r.refresh}
  /\ IF r.refresh > priceData.refresh
     THEN analyticsData' = r /\ priceData' = r /\ correlationMatrices' = r
     ELSE UNCHANGED <<analyticsData, priceData, correlationMatrices>>
  /\ UNCHANGED refreshSeq

\* The Promise.all of one call resolves: the three setters store its result.
RefreshCompletes(r) ==
  /\ r.refresh \in inFlight
  /\ inFlight' = inFlight \ {r.refresh}
  /\ analyticsData' = r
  /\ priceData' = r
  /\ correlationMatrices' = r
  /\ UNCHANGED refreshSeq

----------------------------------------------------------------------------
(* Backtester: runBacktest *)

\* signalData.forEach(...) from signal i on
RECURSIVE matchFrom(_, _, _, _)
matchFrom(sigs, i, ts, cur) ==
  IF i > Len(sigs) THEN ts
  ELSE LET r == matchSignal(ts, cur, sigs[i])
       IN matchFrom(sigs, i + 1, r.trades, r.currentTrade)

\* calculateMetrics(candles, sigs): null for no signals, else the statistics
\* of the matched trades
calculateMetrics(sigs) ==
  IF Len(sigs) = 0 THEN NullMetrics ELSE tradeStats(matchFrom(sigs, 1, <<>>, NullTrade))

\* priceResponse.data?.candles ?? []
RunCandles == {<<>>, <<[timestamp |-> 1, close |-> 1, key |-> "1m"]>>}

\* signalResponse.data?.signals ?? []
RunSignals ==
  {[i \in DOMAIN f |-> [type |-> f[i].type, timestamp |-> i, price |-> f[i].price]] :
     f \in SeqsUpTo([type : {"entry", "exit"}, price : {1, 2}], RunLen)}

\* The Backtester page mounts.
RunInit ==
  /\ priceSeries = <<>>
  /\ signals = <<>>
  /\ btLoading = FALSE
  /\ btError = "null"
  /\ runLog = <<>>

\* Click on the run button (disabled while loading): setLoading(true);
\* setError(null); the two requests are sent.
StartRun ==
  /\ ~btLoading
  /\ Len(runLog) < MaxRuns
  /\ btLoading' = TRUE
  /\ btError' = "null"
  /\ UNCHANGED <<priceSeries, signals, metrics, runLog>>

\* Both requests resolve: the try block and finally.
RunSucceeds(cs, sigs) ==
  /\ btLoading
  /\ priceSeries' = cs
  /\ signals' = sigs
  /\ metrics' = calculateMetrics(sigs)
  /\ btLoading' = FALSE
  /\ runLog' = Append(runLog, "succeeded")
  /\ UNCHANGED btError

\* (variant) a catch block that only reports the failure
RunFails_keepResult ==
  /\ btLoading
  /\ btError' = "Unable to run backtest with current parameters"
  /\ btLoading' = FALSE
  /\ runLog' = Append(runLog, "failed")
  /\ UNCHANGED <<priceSeries, signals, metrics>>

\* A request rejects: the catch block and finally.
RunFails ==
  /\ btLoading
  /\ btError' = "Unable to run backtest with current parameters"
  /\ priceSeries' = <<>>
  /\ signals' = <<>>
  /\ metrics' = NullMetrics
  /\ btLoading' = FALSE
  /\ runLog' = Append(runLog, "failed")

----------------------------------------------------------------------------
(* Placeholders of the other specifications' variables *)

UpdIdle ==
  /\ uPrev = <<>> /\ uCap = 0 /\ uCandle = NoCandle /\ uNext = <<>> /\ uPc = "idle"

BtIdle ==
  /\ signalData = <<>> /\ idx = 0 /\ trades = <<>>
  /\ currentTrade = NullTrade /\ metrics = NullMetrics /\ btPc = "idle"

LiveIdle == LiveInit(0)

RefreshIdle ==
  /\ refreshSeq = 0 /\ inFlight = {} /\ analyticsData = NoResult
  /\ priceData = NoResult /\ correlationMatrices = NoResult

PageIdle == RefreshIdle /\ RunInit

----------------------------------------------------------------------------
(* Specifications *)

\* Spec: the chart from its mount; candles differ in timestamp and key.
Init == ChartInit /\ RekeyIdle /\ PageIdle /\ UpdIdle /\ BtIdle /\ LiveIdle

ChartMessages == Updates(TIMEFRAMES, {1}, MaxTs) \cup OtherMessages("1m")

Click ==
  /\ \E tf \in TIMEFRAMES : SwitchTimeframe(tf)
  /\ UNCHANGED <<rekeyVars, updVars, btVars, liveVars, pageVars>>

Message ==
  /\ \E m \in ChartMessages : ReceiveMessage(m)
  /\ UNCHANGED <<rekeyVars, updVars, btVars, liveVars, pageVars>>

Loaded ==
  /\ \E f \in fetches : \E s \in Snapshots(f.tf, {1}, MaxTs, MaxSnap) : FetchSuccess(f, s)
  /\ UNCHANGED <<rekeyVars, updVars, btVars, liveVars, pageVars>>

LoadFailed ==
  /\ \E f \in fetches : FetchFailure(f)
  /\ UNCHANGED <<rekeyVars, updVars, btVars, liveVars, pageVars>>

StaleSettled ==
  /\ \E f \in fetches : FetchStale(f)
  /\ UNCHANGED <<rekeyVars, updVars, btVars, liveVars, pageVars>>

Next == Click \/ Message \/ Loaded \/ LoadFailed \/ StaleSettled

Spec == Init /\ [][Next]_vars

\* SpecRekey: the same chart, responses of up to RekeySnap candles, with the
\* record of what a click left.
RekeyClick ==
  /\ \E tf \in TIMEFRAMES : SwitchTimeframe(tf)
  /\ RecordLeft
  /\ UNCHANGED <<lastSnap, updVars, btVars, liveVars, pageVars>>

RekeyMessage ==
  /\ \E m \in Updates(TIMEFRAMES, {1}, MaxTs) : ReceiveMessage(m)
  /\ UNCHANGED <<rekeyVars, updVars, btVars, liveVars, pageVars>>

RekeyLoaded ==
  /\ \E f \in fetches : \E s \in Snapshots(f.tf, {1}, MaxTs, RekeySnap) : FetchSuccess(f, s)
  /\ UNCHANGED <<rekeyVars, updVars, btVars, liveVars, pageVars>>

NextRekey == RekeyClick \/ RekeyMessage \/ RekeyLoaded \/ LoadFailed \/ StaleSettled

SpecRekey == Init /\ [][NextRekey]_vars

\* SpecStale: the chart with clicks and responses only: no message arrives.
NextStale == Click \/ RekeyLoaded \/ LoadFailed \/ StaleSettled

SpecStale == Init /\ [][NextStale]_vars

\* SpecSeries: the chart from its mount while the user stays on the default
\* timeframe; updates also differ in their close price, timestamps run to
\* MaxTs + 1, and lastSnap keeps the response of a load until the next step.
SeriesMessage ==
  /\ \E m \in Updates({activeTimeframe}, {1, 2}, MaxTs + 1)
                \cup OtherMessages(activeTimeframe) : ReceiveMessage(m)
  /\ lastSnap' = <<>>
  /\ UNCHANGED <<leftTf, leftBuf, updVars, btVars, liveVars, pageVars>>

SeriesLoaded ==
  /\ \E f \in fetches : \E s \in Snapshots(f.tf, {1}, MaxTs + 1, MaxSnap) :
       FetchSuccess(f, s) /\ lastSnap' = s
  /\ UNCHANGED <<leftTf, leftBuf, updVars, btVars, liveVars, pageVars>>

SeriesLoadFailed ==
  /\ \E f \in fetches : FetchFailure(f)
  /\ lastSnap' = <<>>
  /\ UNCHANGED <<leftTf, leftBuf, updVars, btVars, liveVars, pageVars>>

NextSeries == SeriesMessage \/ SeriesLoaded \/ SeriesLoadFailed

SpecSeries == Init /\ [][NextSeries]_vars

\* SpecFilter: the candle_update effect of a chart on any timeframe whose
\* load is over (at most one candle loaded), fed messages for every timeframe.
InitFilter ==
  /\ activeTimeframe \in TIMEFRAMES
  /\ candles \in Snapshots(activeTimeframe, {1}, MaxTs, 1)
  /\ loading = FALSE
  /\ error = "null"
  /\ lastMessage = NoMessage
  /\ fetches = {}
  /\ lastOp = "load"
  /\ RekeyIdle /\ PageIdle /\ UpdIdle /\ BtIdle /\ LiveIdle

FilterMessage ==
  /\ \E m \in Updates(TIMEFRAMES, {1}, MaxTs) \cup OtherMessages(activeTimeframe) :
       ReceiveMessage(m)
  /\ UNCHANGED <<rekeyVars, updVars, btVars, liveVars, pageVars>>

SpecFilter == InitFilter /\ [][FilterMessage]_vars

\* SpecLive: the socket of SocketProvider and the AnalyticsLab page: opens,
\* closes, reconnects, and up to MaxFrames frames.
chartRest == <<activeTimeframe, candles, loading, error, fetches, lastOp>>

InitLive == ChartInit /\ RekeyIdle /\ PageIdle /\ UpdIdle /\ BtIdle /\ LiveInit(MaxFrames)

Opened ==
  SocketOpen /\ UNCHANGED <<chartVars, rekeyVars, updVars, btVars, pageVars>>

Closed ==
  SocketClose /\ UNCHANGED <<chartVars, rekeyVars, updVars, btVars, pageVars>>

Reconnected ==
  SocketReconnect /\ UNCHANGED <<chartVars, rekeyVars, updVars, btVars, pageVars>>

Delivered ==
  /\ \E frame \in Frames({1, 2}) : Deliver(frame)
  /\ UNCHANGED <<chartRest, rekeyVars, updVars, btVars, pageVars>>

NextLive == Opened \/ Closed \/ Reconnected \/ Delivered

SpecLive == InitLive /\ [][NextLive]_vars

\* SpecScores: one frame delivered to an AnalyticsLab that holds 0 to
\* MaxLivePoints points under one key.
InitScores ==
  /\ ChartInit /\ RekeyIdle /\ PageIdle /\ UpdIdle /\ BtIdle
  /\ readyState = "OPEN"
  /\ reconnectCount = 0
  /\ rawMessage = NoFrame
  /\ liveZScores \in {ScoresAfter(n) : n \in 1..MaxLivePoints} \cup {<<>>}
  /\ budget = 1
  /\ liveOp = "open"

ScoreDelivered ==
  /\ \E frame \in Frames({1, MaxLivePoints - 1, MaxLivePoints}) : Deliver(frame)
  /\ UNCHANGED <<chartRest, rekeyVars, updVars, btVars, pageVars>>

SpecScores == InitScores /\ [][ScoreDelivered]_vars

\* SpecUpdater: the updater called for every capacity, buffer and candle,
\* and called again with the same candle on its result.
InitUpd == InitUpdater /\ ChartInit /\ RekeyIdle /\ PageIdle /\ BtIdle /\ LiveIdle

UpdaterCalled == CallUpdater /\ UNCHANGED <<chartVars, rekeyVars, btVars, liveVars, pageVars>>

UpdaterCalledAgain ==
  CallUpdaterAgain /\ UNCHANGED <<chartVars, rekeyVars, btVars, liveVars, pageVars>>

NextUpdater == UpdaterCalled \/ UpdaterCalledAgain

SpecUpdater == InitUpd /\ [][NextUpdater]_vars

\* SpecBacktest: calculateMetrics over every signal list.
InitBt == InitBacktest /\ ChartInit /\ RekeyIdle /\ PageIdle /\ UpdIdle /\ LiveIdle

ReturnedNull == ReturnNull /\ UNCHANGED <<chartVars, rekeyVars, updVars, liveVars, pageVars>>

Began == BeginMatching /\ UNCHANGED <<chartVars, rekeyVars, updVars, liveVars, pageVars>>

Matched == MatchNext /\ UNCHANGED <<chartVars, rekeyVars, updVars, liveVars, pageVars>>

Returned == ReturnStats /\ UNCHANGED <<chartVars, rekeyVars, updVars, liveVars, pageVars>>

NextBacktest == ReturnedNull \/ Began \/ Matched \/ Returned

SpecBacktest == InitBt /\ [][NextBacktest]_vars

\* SpecStats: calculateMetrics over the lists of up to MaxTrades round trips.
InitStats == InitBacktestOver(PairedLists) /\ ChartInit /\ RekeyIdle /\ PageIdle /\ UpdIdle /\ LiveIdle

SpecStats == InitStats /\ [][NextBacktest]_vars

\* SpecSharpe: calculateMetrics over the lists that repeat one round trip.
InitSharpe == InitBacktestOver(RepeatedLists) /\ ChartInit /\ RekeyIdle /\ PageIdle /\ UpdIdle /\ LiveIdle

SpecSharpe == InitSharpe /\ [][NextBacktest]_vars

\* SpecRefresh: the AnalyticsLab page from its mount, up to MaxRefresh calls
\* of fetchAllData.
InitRefresh ==
  /\ ChartInit /\ RekeyIdle /\ UpdIdle /\ BtIdle /\ LiveIdle /\ RunInit
  /\ RefreshInit

refreshRest == <<chartVars, rekeyVars, updVars, btVars, liveVars, runVars>>

RefreshStarted == TimerFires /\ UNCHANGED refreshRest

RefreshCompleted ==
  /\ \E id \in inFlight : \E r \in RefreshResults(id) : RefreshCompletes(r)
  /\ UNCHANGED refreshRest

NextRefresh == RefreshStarted \/ RefreshCompleted

SpecRefresh == InitRefresh /\ [][NextRefresh]_vars

\* SpecRun: the Backtester page from its mount, up to MaxRuns runs.
runRest == <<chartVars, rekeyVars, updVars, liveVars, refreshVars,
             signalData, idx, trades, currentTrade, btPc>>

RunStarted == StartRun /\ UNCHANGED runRest

RunSucceeded ==
  /\ \E cs \in RunCandles : \E sigs \in RunSignals : RunSucceeds(cs, sigs)
  /\ UNCHANGED runRest

RunFailed == RunFails /\ UNCHANGED runRest

NextRun == RunStarted \/ RunSucceeded \/ RunFailed

SpecRun == Init /\ [][NextRun]_vars

----------------------------------------------------------------------------
(* Properties of the candle buffer *)

\* The step reached setCandles of the candle_update effect with lastMessage'.
UpdateApplied == lastOp' \in {"first", "replace", "append"}

\* How often candle c occurs in s.
Count(s, c) == Cardinality({i \in DOMAIN s : s[i] = c})

NonDecreasing(s) ==
  \A i \in 1..(Len(s) - 1) : s[i].timestamp <= s[i + 1].timestamp

\* r holds the cap latest candles of snap in ascending order: r is ordered,
\* takes each candle from snap, has min(|snap|, cap) candles, and no candle
\* left out of r is later than the first one kept.
LatestSorted(r, snap, cap) ==
  /\ NonDecreasing(r)
  /\ Len(r) = Min(Len(snap), cap)
  /\ \A i \in DOMAIN r : Count(r, r[i]) <= Count(snap, r[i])
  /\ \A i \in DOMAIN snap :
       Count(r, snap[i]) < Count(snap, snap[i]) => snap[i].timestamp <= r[1].timestamp

\* C1: after every load and every applied update, the timestamps of the
\* stored candles are strictly increasing.
C1_StrictlyIncreasing == Increasing(candles)

\* C2: an applied update whose timestamp is smaller than the last stored
\* candle's leaves a non-empty buffer exactly unchanged.
C2_OutOfOrderRejected ==
  [][(/\ UpdateApplied
      /\ candles # <<>>
      /\ lastMessage'.candle.timestamp < Last(candles).timestamp)
     => candles' = candles]_vars

\* C3: in every reachable state the buffer holds at most the capacity of the
\* active timeframe.
C3_WithinActiveCapacity == Len(candles) <= MAX_POINTS(activeTimeframe)

\* C4: an applied update whose timestamp equals the last stored candle's
\* replaces the last element by the new candle and changes neither the length
\* nor any earlier element.
C4_ReplaceOnEqual ==
  [][(/\ UpdateApplied
      /\ candles # <<>>
      /\ lastMessage'.candle.timestamp = Last(candles).timestamp)
     => /\ Len(candles') = Len(candles)
        /\ Last(candles') = lastMessage'.candle
        /\ \A i \in 1..(Len(candles) - 1) : candles'[i] = candles[i]]_vars

\* C4 happens: after the load, a candle with the last timestamp and another
\* close has replaced the last of two candles.
C4_Witness ==
  /\ lastOp = "replace"
  /\ ~loading
  /\ Len(candles) = 2
  /\ candles[1].timestamp < candles[2].timestamp
  /\ candles[2] = lastMessage.candle
  /\ candles[2].close = 2

C6_LoadSortsAndTruncates ==
  lastOp = "load" => LatestSorted(candles, lastSnap, MAX_POINTS(activeTimeframe))

\* C6 happens: the response was out of order and longer than the capacity.
C6_Witness ==
  /\ lastOp = "load"
  /\ Len(lastSnap) > MAX_POINTS(activeTimeframe)
  /\ ~NonDecreasing(lastSnap)
  /\ Len(candles) = MAX_POINTS(activeTimeframe)
  /\ candles[1].timestamp < candles[2].timestamp

\* C7: a click back to the timeframe that was left last, with no update
\* applied for it, shows the series held for that timeframe when it was left.
C7_SeriesKeptAcrossSwitch ==
  [][(/\ activeTimeframe' # activeTimeframe
      /\ activeTimeframe' = leftTf
      /\ ~UpdateApplied)
     => candles' = leftBuf]_vars

\* C8: every candle of the buffer was delivered for the active timeframe.
C8_OnlyActiveKey ==
  \A i \in DOMAIN candles : candles[i].key = activeTimeframe

----------------------------------------------------------------------------
(* Properties of the trade matching *)

\* The position of the last signal a closed trade used (0 before the first).
ClosedUpTo(k) == IF k = 0 THEN 0 ELSE trades[k].exit.timestamp

NoneBetween(type, from, to) ==
  \A p \in (from + 1)..(to - 1) : signalData[p].type # type

\* C9: after idx signals the trades are the greedy single-slot pairing of
\* them: each trade pairs the first entry after the previous trade's exit with
\* the first exit after that entry, so the trades are in input order and do
\* not overlap; the slot holds the first entry after the last exit if there is
\* one, and nothing else is kept.
C9_GreedySingleSlot ==
  /\ \A k \in DOMAIN trades :
       LET t == trades[k] IN
       /\ ClosedUpTo(k - 1) < t.entry.timestamp
       /\ t.entry.timestamp < t.exit.timestamp
       /\ t.exit.timestamp <= idx
       /\ t.entry = signalData[t.entry.timestamp] /\ t.entry.type = "entry"
       /\ t.exit = signalData[t.exit.timestamp] /\ t.exit.type = "exit"
       /\ NoneBetween("entry", ClosedUpTo(k - 1), t.entry.timestamp)
       /\ NoneBetween("exit", t.entry.timestamp, t.exit.timestamp)
  /\ IF currentTrade = NullTrade
     THEN NoneBetween("entry", ClosedUpTo(Len(trades)), idx + 1)
     ELSE /\ currentTrade.exit = NullSignal
          /\ ClosedUpTo(Len(trades)) < currentTrade.entry.timestamp
          /\ currentTrade.entry.timestamp <= idx
          /\ currentTrade.entry = signalData[currentTrade.entry.timestamp]
          /\ currentTrade.entry.type = "entry"
          /\ NoneBetween("entry", ClosedUpTo(Len(trades)), currentTrade.entry.timestamp)
          /\ NoneBetween("exit", currentTrade.entry.timestamp, idx + 1)

\* C9 happens: exit, entry, entry, exit gives the one trade (2, 4); the stray
\* exit and the entry made while the trade was open are discarded.
C9_Witness ==
  /\ btPc = "done"
  /\ Len(signalData) = 4
  /\ signalData[1].type = "exit" /\ signalData[2].type = "entry"
  /\ signalData[3].type = "entry" /\ signalData[4].type = "exit"
  /\ Len(trades) = 1
  /\ trades[1].entry.timestamp = 2 /\ trades[1].exit.timestamp = 4

\* C10: the trades handed to the statistics are closed at every step, and at
\* the return an entry still open is in no trade and totalTrades counts the
\* closed trades, one per exit signal that closed one.
C10_OnlyClosedTrades ==
  /\ \A k \in DOMAIN trades : trades[k].exit # NullSignal
  /\ (btPc = "done" /\ signalData # <<>>) =>
       /\ ~metrics.isNull
       /\ metrics.totalTrades =
            Cardinality({p \in DOMAIN signalData :
                           \E k \in DOMAIN trades : trades[k].exit = signalData[p]})
       /\ metrics.winningTrades + metrics.losingTrades <= metrics.totalTrades
       /\ currentTrade # NullTrade =>
            \A k \in DOMAIN trades : trades[k].entry # currentTrade.entry

\* C10 happens: a run returns with one closed trade and a later entry open.
C10_Witness ==
  /\ btPc = "done"
  /\ currentTrade # NullTrade
  /\ currentTrade.exit = NullSignal
  /\ Len(trades) = 1
  /\ metrics.totalTrades = 1

----------------------------------------------------------------------------
(* Properties of the statistics *)

\* calculateMetrics has returned a record for at least one trade
StatsReturned == btPc = "done" /\ Len(trades) > 0

\* C11: whenever the run ends with no trades - the empty signal list
\* included - the returned record has every count and every rate zero.
C11_EmptyTradesAllZero ==
  (btPc = "done" /\ Len(trades) = 0) => metrics = ZeroMetrics

\* the cumulative sum after the first i trades, and its running peak
CumulativeAt(pnl, i) == reduceSum(SubSeq(pnl, 1, i))

PeakAt(pnl, i) ==
  CHOOSE c \in {CumulativeAt(pnl, j) : j \in 1..i} :
    \A j \in 1..i : ~flGt(CumulativeAt(pnl, j), c)

DrawdownAt(pnl, i) == flSub(PeakAt(pnl, i), CumulativeAt(pnl, i))

\* C12: maxDrawdown is the largest peak - cumulative over the walk of the
\* cumulative pnl in trade order, it is never negative, and the walk of
\* [+10, +5, -20, +3] reports 20.
C12_MaxDrawdownWalk ==
  /\ StatsReturned =>
       LET pnl == tradePnL(trades)
       IN /\ metrics.maxDrawdown.m >= 0
          /\ \A i \in DOMAIN pnl : ~flGt(DrawdownAt(pnl, i), metrics.maxDrawdown)
          /\ \E i \in DOMAIN pnl : DrawdownAt(pnl, i) = metrics.maxDrawdown
  /\ maxDrawdown(<<Num(10), Num(5), Num(-20), Num(3)>>) = Num(20)

\* C12 happens: three trades at +100, -50, +100: the drawdown of 50 after
\* the second trade is recovered by the third and is still what is reported.
C12_Witness ==
  /\ StatsReturned
  /\ tradePnL(trades) = <<Num(100), Num(-50), Num(100)>>
  /\ metrics.maxDrawdown = Num(50)

\* C13: when every matched trade has the same pnl, sharpeRatio is exactly 0.
C13_SharpeZeroVariance ==
  (StatsReturned /\ \A i, j \in DOMAIN trades : tradePnL(trades)[i] = tradePnL(trades)[j])
    => metrics.sharpeRatio = Zero

\* C14: winningTrades counts the trades that exit above their entry,
\* losingTrades those that exit below it, a trade that exits at its entry is
\* in neither and in totalTrades, and winRate is winningTrades / totalTrades
\* * 100 (0 with no winner, 100 with winners only).
C14_WinLossBuckets ==
  StatsReturned =>
    LET W == {k \in DOMAIN trades : trades[k].exit.price > trades[k].entry.price}
        L == {k \in DOMAIN trades : trades[k].exit.price < trades[k].entry.price}
    IN /\ metrics.totalTrades = Len(trades)
       /\ metrics.winningTrades = Cardinality(W)
       /\ metrics.losingTrades = Cardinality(L)
       /\ metrics.winningTrades + metrics.losingTrades <= metrics.totalTrades
       /\ metrics.winRate =
            flMul(flDiv(Num(Cardinality(W)), Num(Len(trades))), Num(100))
       /\ (W = {}) <=> (metrics.winRate = Zero)
       /\ (W = DOMAIN trades) <=> (metrics.winRate = Num(100))

\* C14 happens: a winner, a trade that breaks even and a loser.
C14_Witness ==
  /\ StatsReturned
  /\ metrics.totalTrades = 3
  /\ metrics.winningTrades = 1
  /\ metrics.losingTrades = 1

\* C15: avgProfit is the mean of the pnl of the trades that exit above their
\* entry and 0 without one, avgLoss the mean of the pnl of the trades that
\* exit below it and 0 without one; avgProfit >= 0 and avgLoss <= 0.
C15_AverageProfitAndLoss ==
  StatsReturned =>
    LET up == tradePnL(SelectSeq(trades, LAMBDA t : t.exit.price > t.entry.price))
        down == tradePnL(SelectSeq(trades, LAMBDA t : t.exit.price < t.entry.price))
    IN /\ metrics.avgProfit =
            IF Len(up) = 0 THEN Zero ELSE flDiv(reduceSum(up), Num(Len(up)))
       /\ metrics.avgLoss =
            IF Len(down) = 0 THEN Zero ELSE flDiv(reduceSum(down), Num(Len(down)))
       /\ metrics.avgProfit.m >= 0
       /\ metrics.avgLoss.m <= 0
       /\ (Len(up) > 0) => metrics.avgProfit.m > 0
       /\ (Len(down) > 0) => metrics.avgLoss.m < 0

\* C15 happens: one loss of 50 among trades that break even, and no winner.
C15_Witness ==
  /\ StatsReturned
  /\ metrics.totalTrades = 3
  /\ metrics.winningTrades = 0
  /\ metrics.avgLoss = Num(-50)
  /\ metrics.avgProfit = Zero

----------------------------------------------------------------------------
(* Properties of the matching pass: the trailing entry *)

\* the entry signals of the list, and those that arrive while no trade is
\* open: the first signal, or the signal after an exit
Entries == {p \in DOMAIN signalData : signalData[p].type = "entry"}

OpeningEntries ==
  {p \in Entries : p = 1 \/ signalData[p - 1].type = "exit"}

\* the run is over and the list ends in an entry: a trade is left open
EndsInEntry ==
  /\ btPc = "done"
  /\ Len(signalData) > 0
  /\ signalData[Len(signalData)].type = "entry"

\* C20 as stated: a list that ends in an unmatched entry yields one trade
\* fewer than it has entry signals, and that entry is in no trade.
C20_OneFewerThanEntries ==
  EndsInEntry =>
    /\ Len(trades) = Cardinality(Entries) - 1
    /\ \A k \in DOMAIN trades : trades[k].entry # currentTrade.entry

\* C20 amended: a list that ends in an entry yields one trade fewer than it
\* has entries that arrive while no trade is open, and the entry left open
\* (the last of those) is in no trade.
C20_OneFewerThanOpeningEntries ==
  EndsInEntry =>
    /\ Len(trades) = Cardinality(OpeningEntries) - 1
    /\ currentTrade.exit = NullSignal
    /\ \E p \in OpeningEntries :
         /\ currentTrade.entry = signalData[p]
         /\ \A q \in OpeningEntries : q <= p
    /\ \A k \in DOMAIN trades : trades[k].entry # currentTrade.entry

\* C20 happens: entry, exit, entry, entry ends with one trade, the third
\* signal left open and the fourth discarded.
C20_Witness ==
  /\ EndsInEntry
  /\ Len(signalData) = 4
  /\ Len(trades) = 1
  /\ Cardinality(Entries) = 3
  /\ currentTrade.entry = signalData[3]

----------------------------------------------------------------------------
(* Properties of the message filter *)

\* a step that delivers a parsed message to the chart
MessageStep ==
  /\ lastOp' \in {"ignored", "first", "replace", "append"}
  /\ UNCHANGED <<activeTimeframe, fetches>>

\* C19: a message that is not a candle_update, or is for another symbol
\* (compared in lower case) or for a timeframe other than the active one,
\* leaves candles as it was.
C19_OtherKeyIgnored ==
  [][(/\ MessageStep
      /\ \/ lastMessage'.type # "candle_update"
         \/ toLowerCase(lastMessage'.symbol) # "btcusdt"
         \/ lastMessage'.timeframe # activeTimeframe)
     => candles' = candles]_vars

\* C19 happens: a candle_update with a candle for another timeframe was the
\* last step and the candles held are still there.
C19_Witness ==
  /\ lastOp = "ignored"
  /\ Len(candles) > 0
  /\ lastMessage.type = "candle_update"
  /\ lastMessage.symbol = "btcusdt"
  /\ lastMessage.candle # NoCandle
  /\ lastMessage.timeframe # activeTimeframe

----------------------------------------------------------------------------
(* Properties of the socket and of the live z-score buffers *)

\* a step that delivers a frame
FrameStep == budget' < budget

\* C16: a live_zscore message puts one point at the end of the buffer of
\* (lower-cased symbol, timeframe), whatever its timestamp - also when the
\* last point has that timestamp - and the buffer is then its own last
\* MaxLivePoints points: the oldest go first and the length stays within
\* MaxLivePoints; the other buffers are untouched.
C16_LivePointAppended ==
  [][(FrameStep /\ rawMessage'.kind = "json" /\ rawMessage'.json.type = "live_zscore") =>
       LET m == rawMessage'.json
           key == <<toLowerCase(m.symbol), m.timeframe>>
           old == IF key \in DOMAIN liveZScores THEN liveZScores[key] ELSE <<>>
           new == liveZScores'[key]
           kept == Len(new) - 1
       IN /\ DOMAIN liveZScores' = DOMAIN liveZScores \cup {key}
          /\ Len(new) = IF Len(old) < MaxLivePoints THEN Len(old) + 1 ELSE MaxLivePoints
          /\ \A i \in 1..kept : new[i] = old[Len(old) - kept + i]
          /\ (m.timestamp # Undefined) => new[Len(new)].timestamp = m.timestamp
          /\ (m.z_score # Undefined) => new[Len(new)].value = m.z_score
          /\ \A k \in DOMAIN liveZScores \ {key} : liveZScores'[k] = liveZScores[k]]_vars

\* C16 happens: a buffer of MaxLivePoints points took a point at the
\* timestamp of its last one: both are there and the oldest point is gone.
C16_Witness ==
  /\ liveOp = "appended"
  /\ <<"btcusdt", "1m">> \in DOMAIN liveZScores
  /\ LET buf == liveZScores[<<"btcusdt", "1m">>]
     IN /\ Len(buf) = MaxLivePoints
        /\ buf[MaxLivePoints].timestamp = buf[MaxLivePoints - 1].timestamp
        /\ buf[1].timestamp = 2

\* a frame that is not JSON, or a recognised payload without a required field
Malformed(frame) ==
  \/ frame.kind = "garbled"
  \/ /\ frame.kind = "json"
     /\ \/ frame.json.type = "candle_update" /\ frame.json.candle = NoCandle
        \/ /\ frame.json.type = "live_zscore"
           /\ (frame.json.z_score = Undefined \/ frame.json.timestamp = Undefined)

\* C17: a malformed frame leaves every candle buffer and every score buffer
\* as it was.
C17_MalformedDropped ==
  [][(FrameStep /\ Malformed(rawMessage')) =>
       (candles' = candles /\ liveZScores' = liveZScores)]_vars

\* the socket has used up its reconnect attempts
Exhausted == readyState = "CLOSED" /\ reconnectCount = reconnectAttempts

\* what the consumers of the socket context read and hold
ConsumerState == <<lastMessage, liveZScores, candles, loading, error>>

\* C18: no more than reconnectAttempts reconnects are made, the socket stays
\* closed once they are used up, and reaching that state changes something
\* the consumers of the socket observe.
C18_ReconnectBoundedAndSurfaced ==
  [][/\ reconnectCount' <= reconnectAttempts
     /\ Exhausted => Exhausted'
     /\ (~Exhausted /\ Exhausted') => ConsumerState' # ConsumerState]_vars

----------------------------------------------------------------------------
(* Properties of the chart's load and update interleavings *)

\* C21: while no load has completed for the active key (the fetch is still
\* in flight or has failed), a candle_update leaves an empty buffer empty.
C21_UpdatesNeverEstablish ==
  [][(/\ MessageStep
      /\ candles = <<>>
      /\ (loading \/ error # "null"))
     => candles' = <<>>]_vars

\* C22: after a failed fetch the buffer is empty or holds exactly what it
\* held when the fetch was issued, and the error is set.
C22_FailedLoadKeepsBuffer ==
  lastOp = "loadFailed" =>
    /\ candles = <<>> \/ candles = leftBuf
    /\ error # "null"

\* C23: a response that arrives after live updates were applied replaces
\* them: the buffer is the response sorted and cut to the capacity, and no
\* candle that came from an update is left in it.
C23_LoadAlwaysWins ==
  lastOp = "load" =>
    /\ candles = loadCandles(lastSnap, MAX_POINTS(activeTimeframe))
    /\ \A i \in DOMAIN candles :
         /\ candles[i].close = 1
         /\ \E j \in DOMAIN lastSnap : lastSnap[j] = candles[i]

\* C23 happens: an update with close 2 had been applied for the active key
\* before a non-empty response arrived.
C23_Witness ==
  /\ lastOp = "load"
  /\ Accepts(lastMessage, activeTimeframe)
  /\ lastMessage.candle.close = 2
  /\ Len(lastSnap) > 1
  /\ Len(candles) > 1
  /\ \A i \in DOMAIN candles : candles[i] # lastMessage.candle

----------------------------------------------------------------------------
(* Properties of the AnalyticsLab and Backtester pages *)

\* C24: a live_zscore message for key k changes the score buffer of k only:
\* the buffer of every other key is the same before and after, and no
\* candle buffer and no price series is modified.
C24_OnlyOwnScoreBuffer ==
  [][(FrameStep /\ rawMessage'.kind = "json" /\ rawMessage'.json.type = "live_zscore") =>
       LET k == <<toLowerCase(rawMessage'.json.symbol), rawMessage'.json.timeframe>>
       IN /\ \A o \in DOMAIN liveZScores \ {k} :
               o \in DOMAIN liveZScores' /\ liveZScores'[o] = liveZScores[o]
          /\ DOMAIN liveZScores' \ {k} = DOMAIN liveZScores \ {k}
          /\ liveZScores'[k] # existingPoints(liveZScores, k)
          /\ candles' = candles
          /\ priceData' = priceData
          /\ priceSeries' = priceSeries]_vars

\* C24 happens: with a buffer held for btcusdt, a point arrived for ethusdt.
C24_Witness ==
  /\ liveOp = "appended"
  /\ toLowerCase(lastMessage.symbol) = "ethusdt"
  /\ DOMAIN liveZScores = {<<"btcusdt", "1m">>, <<"ethusdt", "1m">>}
  /\ Len(liveZScores[<<"btcusdt", "1m">>]) = 1
  /\ Len(liveZScores[<<"ethusdt", "1m">>]) = 1

\* C25: once every call of fetchAllData has completed, priceData,
\* analyticsData and correlationMatrices hold the result of the call that
\* was started last.
C25_RefreshesConverge ==
  inFlight = {} =>
    /\ priceData.refresh = refreshSeq
    /\ analyticsData.refresh = refreshSeq
    /\ correlationMatrices.refresh = refreshSeq

\* C30: when a run has ended in failure, priceSeries and signals are empty,
\* metrics is null and the error is set; when it has ended in success, the
\* error is null and metrics is what calculateMetrics gives for the signals
\* stored.
C30_NoStaleResult ==
  (~btLoading /\ runLog # <<>>) =>
    IF Last(runLog) = "failed"
    THEN /\ priceSeries = <<>>
         /\ signals = <<>>
         /\ metrics = NullMetrics
         /\ btError # "null"
    ELSE /\ btError = "null"
         /\ metrics = calculateMetrics(signals)
         /\ (signals = <<>>) = metrics.isNull

\* C30 happens: a run that found a trade was followed by a run that failed.
C30_Witness ==
  /\ runLog = <<"succeeded", "failed">>
  /\ ~btLoading
  /\ metrics = NullMetrics

----------------------------------------------------------------------------
(* Properties of superseded fetches, repeated updates and drawdown *)

\* C26: a response that arrives after the timeframe was changed has no
\* effect on candles, error or loading; a response that is stored is the one
\* requested for the timeframe that is active when it arrives.
C26_StaleDiscarded ==
  [][/\ lastOp' = "stale" => UNCHANGED <<candles, error, loading>>
     /\ lastOp' \in {"load", "loadFailed"} =>
          /\ [tf |-> activeTimeframe, ignore |-> FALSE] \in fetches \ fetches'
          /\ \A i \in DOMAIN candles' :
               lastOp' = "load" => candles'[i].key = activeTimeframe]_vars

\* C26 happens: with a loaded series shown and a newer fetch in flight, a
\* superseded fetch has settled.
C26_Witness ==
  /\ lastOp = "stale"
  /\ loading
  /\ error = "null"
  /\ Len(candles) > 0
  /\ candles[1].key # activeTimeframe
  /\ fetches = {[tf |-> activeTimeframe, ignore |-> FALSE]}

\* C27: a click on another timeframe, which brings no new message, applies
\* nothing: candles is what it was.
C27_SwitchAppliesNothing ==
  [][activeTimeframe' # activeTimeframe => candles' = candles]_vars

\* C28: applying the same update a second time changes nothing, for every
\* buffer, capacity and candle.
C28_UpdateIdempotent ==
  [][(uPc = "done" /\ uPc' = "twice") => uNext' = uNext]_vars

\* C28 happens: the first application appended to a full buffer and the
\* second left the result as it was.
C28_Witness ==
  /\ uPc = "twice"
  /\ uCap > 1
  /\ Len(uPrev) = uCap
  /\ uCandle.timestamp > Last(uPrev).timestamp
  /\ Len(uNext) = uCap
  /\ Last(uNext) = uCandle
  /\ uNext[1] = uPrev[2]

\* the cumulative sums never fall from one trade to the next
CumulativeNonDecreasing(pnl) ==
  \A i \in 1..(Len(pnl) - 1) : ~flGt(CumulativeAt(pnl, i), CumulativeAt(pnl, i + 1))

\* C29: maxDrawdown is the largest cum_i - cum_j over trades i <= j, the
\* level 0 before the first trade not being a peak: it is 0 for a single
\* trade, a loss included, and 0 exactly when the cumulative sums never fall.
C29_DeclinesFromPeaksOnly ==
  StatsReturned =>
    LET pnl == tradePnL(trades)
        fromPeaks == UNION {{flSub(CumulativeAt(pnl, i), CumulativeAt(pnl, j)) :
                               j \in i..Len(pnl)} : i \in 1..Len(pnl)}
    IN /\ metrics.maxDrawdown \in fromPeaks
       /\ \A d \in fromPeaks : ~flGt(d, metrics.maxDrawdown)
       /\ Len(pnl) = 1 => metrics.maxDrawdown = Zero
       /\ (metrics.maxDrawdown = Zero) = CumulativeNonDecreasing(pnl)

\* C29 happens: one trade, closed at a loss, and a drawdown of 0.
C29_Witness ==
  /\ StatsReturned
  /\ Len(trades) = 1
  /\ isNegative(metrics.totalProfitLoss)
  /\ metrics.losingTrades = 1
  /\ metrics.maxDrawdown = Zero

====
